---- MODULE Spec2Model ----
(***************************************************************************)
(* export-mail: the download pipeline of the CLI (index.ts) and of         *)
(* EmailDownloader, with the credential provider (AuthManager), the remote *)
(* mailbox API and the staging directory as the environment.               *)
(*                                                                         *)
(* Strings whose content the code inspects (folder names, subjects, ids,   *)
(* timestamps, file names) are sequences of one-character strings.         *)
(***************************************************************************)
EXTENDS Integers, Sequences, FiniteSets, TLC

(***************************************************************************)
(* Bounds of the model.                                                    *)
(***************************************************************************)
\* largest number of records the small mailboxes hold at the start of a run
MaxHeld == 3
\* largest --limit of the small runs
MaxLimit == 4
\* largest explicit options.batchSize of the small runs (0 stands for unset)
MaxBatch == 2
\* largest answer of the $count query in the small runs
MaxCount == 4
\* number of disturbances during a small run: a change of the mailbox on the
\* server between two pages, or a write of a record that fails
MaxFaults == 1
\* the bulk run: a mailbox of BulkHeld records, a stale count of BulkCount
BulkHeld == 123
BulkCount == 200
\* a run whose progress hits a half: HalfHeld of HalfCount is 57.5 percent
HalfHeld == 23
HalfCount == 40
\* clock: milliseconds added by one tick, and the number of ticks
TickMs == 150000
MaxTicks == 2
\* calls made on one AuthManager object
MaxCalls == 3

(***************************************************************************)
(* Program constants.                                                      *)
(***************************************************************************)
DefaultBatchSize == 50
DefaultLimit == 1000
SubjectMax == 50
FiveMinutes == 300000

Min(a, b) == IF a <= b THEN a ELSE b

(***************************************************************************)
(* Characters and strings.                                                 *)
(***************************************************************************)
LowerLetters ==
    {"a","b","c","d","e","f","g","h","i","j","k","l","m",
     "n","o","p","q","r","s","t","u","v","w","x","y","z"}
UpperLetters ==
    {"A","B","C","D","E","F","G","H","I","J","K","L","M",
     "N","O","P","Q","R","S","T","U","V","W","X","Y","Z"}
DigitChars == {"0","1","2","3","4","5","6","7","8","9"}
\* \s of the regular expressions
WhiteSpace == {" ", "\t", "\n"}

\* Number.prototype.toString for a natural number
DigitOf(d) ==
    CASE d = 0 -> "0" [] d = 1 -> "1" [] d = 2 -> "2" [] d = 3 -> "3"
      [] d = 4 -> "4" [] d = 5 -> "5" [] d = 6 -> "6" [] d = 7 -> "7"
      [] d = 8 -> "8" [] d = 9 -> "9"

RECURSIVE NumToString(_)
NumToString(n) ==
    IF n < 10 THEN <<DigitOf(n)>>
    ELSE NumToString(n \div 10) \o <<DigitOf(n % 10)>>

\* the number a decimal string is coerced to when axios serialises $skip
ValueOf(c) == CHOOSE d \in 0..9 : DigitOf(d) = c

RECURSIVE StringToNum(_)
StringToNum(s) ==
    IF Len(s) = 0 THEN 0
    ELSE 10 * StringToNum(SubSeq(s, 1, Len(s) - 1)) + ValueOf(s[Len(s)])

\* String.prototype.toLowerCase
LowerOf(c) ==
    CASE c = "A" -> "a" [] c = "B" -> "b" [] c = "C" -> "c" [] c = "D" -> "d"
      [] c = "E" -> "e" [] c = "F" -> "f" [] c = "G" -> "g" [] c = "H" -> "h"
      [] c = "I" -> "i" [] c = "J" -> "j" [] c = "K" -> "k" [] c = "L" -> "l"
      [] c = "M" -> "m" [] c = "N" -> "n" [] c = "O" -> "o" [] c = "P" -> "p"
      [] c = "Q" -> "q" [] c = "R" -> "r" [] c = "S" -> "s" [] c = "T" -> "t"
      [] c = "U" -> "u" [] c = "V" -> "v" [] c = "W" -> "w" [] c = "X" -> "x"
      [] c = "Y" -> "y" [] c = "Z" -> "z" [] OTHER -> c

ToLowerCase(s) == [i \in 1..Len(s) |-> LowerOf(s[i])]

(***************************************************************************)
(* generateEmailFileName                                                   *)
(***************************************************************************)
\* the characters /[^a-zA-Z0-9\-_\s]/g leaves in place
KeptBySanitizer(c) ==
    c \in LowerLetters \cup UpperLetters \cup DigitChars \cup {"-", "_"} \cup WhiteSpace

\* .replace(/[^a-zA-Z0-9\-_\s]/g, "")
StripUnsafe(s) == SelectSeq(s, KeptBySanitizer)

\* .replace(/\s+/g, "_"): every maximal run of white space becomes one "_"
RECURSIVE CollapseWhiteSpace(_)
CollapseWhiteSpace(s) ==
    IF Len(s) = 0 THEN <<>>
    ELSE IF s[1] \in WhiteSpace
         THEN IF Len(s) > 1 /\ s[2] \in WhiteSpace
              THEN CollapseWhiteSpace(Tail(s))
              ELSE <<"_">> \o CollapseWhiteSpace(Tail(s))
         ELSE <<s[1]>> \o CollapseWhiteSpace(Tail(s))

\* .substring(0, n)
Substring0(s, n) == SubSeq(s, 1, Min(Len(s), n))

SubjectSlug(subject) ==
    Substring0(CollapseWhiteSpace(StripUnsafe(subject)), SubjectMax)

\* format(new Date(iso), "yyyy-MM-dd_HH-mm-ss") for a timestamp of the form
\* yyyy-MM-ddTHH:mm:ssZ, as Graph sends it, in a process whose zone is UTC
FormatDate(iso) ==
    SubSeq(iso, 1, 10) \o <<"_">> \o SubSeq(iso, 12, 13) \o <<"-">>
        \o SubSeq(iso, 15, 16) \o <<"-">> \o SubSeq(iso, 18, 19)

generateEmailFileName(email) ==
    FormatDate(email.receivedDateTime) \o <<"_">> \o SubjectSlug(email.subject)
        \o <<"_">> \o email.id \o <<".", "j", "s", "o", "n">>

(***************************************************************************)
(* Values.                                                                 *)
(***************************************************************************)
\* JavaScript null, for values that are strings otherwise
NullString == <<"<null>">>
\* if (s): null and "" are falsy, every other string is truthy
Truthy(s) == s # NullString /\ s # <<>>

Str_inbox == <<"i","n","b","o","x">>
Str_sent == <<"s","e","n","t">>
Str_sentitems == <<"s","e","n","t","i","t","e","m","s">>
Str_drafts == <<"d","r","a","f","t","s">>
Str_deleted == <<"d","e","l","e","t","e","d">>
Str_deleteditems == <<"d","e","l","e","t","e","d","i","t","e","m","s">>
Str_junk == <<"j","u","n","k">>
Str_junkemail == <<"j","u","n","k","e","m","a","i","l">>

\* two received times one second apart
TimeA == <<"2","0","2","4","-","0","1","-","0","2","T",
           "0","3",":","0","4",":","0","5","Z">>
TimeB == <<"2","0","2","4","-","0","1","-","0","2","T",
           "0","3",":","0","4",":","0","6","Z">>

\* what GET /me/messages/{id}/attachments answers for a message that has some
AttachmentsOf(id) == <<[name |-> <<"f">>, of |-> id]>>

\* the i-th message of the mailbox, as GET .../messages returns it: the
\* attachments field is absent (present = FALSE) until the downloader sets it
Rec(i) ==
    [id |-> CASE i = 1 -> <<"b","_","c">>
              [] i = 2 -> <<"c">>
              [] OTHER -> <<"m">> \o NumToString(i),
     subject |-> CASE i = 1 -> <<"a">>
                   [] i = 2 -> <<"a"," ","b">>
                   [] i = 3 -> <<"R","e",":"," "," ","a","!">>
                   [] OTHER -> <<"s">>,
     receivedDateTime |-> IF i <= 2 THEN TimeA ELSE TimeB,
     hasAttachments |-> (i % 2 = 1),
     isRead |-> FALSE,
     attachments |-> [present |-> FALSE, items |-> <<>>]]

\* the subject a draft gets when it is edited on the server during a run
EditedSubject == <<"a"," ","z">>

FolderNames ==
    {Str_inbox, <<"S","e","n","t">>, <<"J","U","N","K">>, Str_drafts,
     Str_deleted, <<"P","r","o","j","e","c","t","s">>}

\* the folders a display-name lookup can match
CustomFolder(n) == [id |-> <<"F">> \o NumToString(n),
                    displayName |-> <<"P","r","o","j","e","c","t","s">>]

NoFile == [exists |-> FALSE, accessToken |-> <<>>, refreshToken |-> <<>>,
           expiresOn |-> 0]
TokenFile(e) == [exists |-> TRUE, accessToken |-> <<"t","o","k">>,
                 refreshToken |-> <<>>, expiresOn |-> e]

(***************************************************************************)
(* State.                                                                  *)
(***************************************************************************)
VARIABLES
    cmd,             \* the command of index.ts being run: "download" or "full"
    pc,              \* the await the command is suspended at
    exitCode,        \* process exit status, -1 while running
    failure,         \* the error that ended the run, "none" otherwise
    options,         \* DownloadOptions built by the command
    tokenCache,      \* token-cache.json of AuthManager
    now,             \* Date.now()
    ticks,           \* clock ticks so far
    mailbox,         \* the messages of the folder on the server, newest first
    serverCount,     \* what the $count query answers
    faults,          \* disturbances still to come during the run
    accessToken,     \* downloadEmails: accessToken
    folderId,        \* downloadEmails: folderId
    totalEmails,     \* downloadEmails: totalEmails
    downloadedCount, \* downloadEmailsBatch: downloadedCount
    skipToken,       \* downloadEmailsBatch: skipToken
    remainingEmails, \* downloadEmailsBatch: remainingEmails of the iteration
    emails,          \* the page being processed
    idx,             \* position in emails of the for-of loop under way
    keepFile,        \* outputPath/.keep exists
    files,           \* outputPath: file name -> staged content
    requests,        \* every request made to the mailbox API, in order
    tokenCalls,      \* calls of AuthManager.getAccessToken
    saved,           \* every record handed to Bun.write, in order, with outcome
    progress,        \* every ProgressInfo logged by downloadEmailsBatch, in order
    authManager      \* the AuthManager object: msalInstance set, calls made on it

vars == <<cmd, pc, exitCode, failure, options, tokenCache, now, ticks,
          mailbox, serverCount, faults, accessToken, folderId, totalEmails,
          downloadedCount, skipToken, remainingEmails, emails, idx, keepFile,
          files, requests, tokenCalls, saved, progress, authManager>>

(***************************************************************************)
(* AuthManager                                                             *)
(***************************************************************************)
\* isTokenValid
isTokenValid(token, time) ==
    IF ~Truthy(token.accessToken) THEN FALSE
    ELSE token.expiresOn > time + FiveMinutes

\* isAuthenticated: getCachedToken() !== null && isTokenValid(cachedToken)
isAuthenticated(cache, time) == cache.exists /\ isTokenValid(cache, time)

\* getAccessToken, given whether initializeMsal succeeds and what
\* acquireTokenSilent answers (refreshed = FALSE: it throws or answers null).
\* The result is the token returned and the token cache afterwards.
getAccessToken(cache, time, initOk, refreshed, writeOk) ==
    IF ~initOk THEN [token |-> NullString, cache |-> cache]
    ELSE IF cache.exists /\ isTokenValid(cache, time)
    THEN [token |-> cache.accessToken, cache |-> cache]
    ELSE IF cache.exists /\ Truthy(cache.refreshToken) /\ refreshed
    THEN [token |-> <<"t","o","k","2">>,
          cache |-> IF writeOk
                    THEN [exists |-> TRUE, accessToken |-> <<"t","o","k","2">>,
                          refreshToken |-> cache.refreshToken,
                          expiresOn |-> time + FiveMinutes + TickMs]
                    ELSE cache]
    ELSE [token |-> NullString, cache |-> cache]

\* cacheToken: Bun.write of the token file; a failure is caught and warned
\* about, the file stays as it was
cacheToken(cache, token, writeOk) == IF writeOk THEN token ELSE cache

AcquiredToken_WithRefresh(expiresOn) ==
    [exists |-> TRUE, accessToken |-> <<"n","e","w">>,
     refreshToken |-> <<"r">>, expiresOn |-> expiresOn]

\* what acquireTokenByDeviceCode answers, as authenticate hands it to
\* cacheToken: refreshToken is ""
AcquiredToken(expiresOn) ==
    [exists |-> TRUE, accessToken |-> <<"n","e","w">>, refreshToken |-> <<>>,
     expiresOn |-> expiresOn]

\* authenticate, given whether initializeMsal and getConfig succeed, whether
\* the device-code flow answers a token (flowOk = FALSE: it throws or answers
\* null), the expiry of that token and whether the cache write succeeds.
\* The result is the value returned, the token cache afterwards and the
\* expiry of the token the answer rests on.
authenticate(cache, time, initOk, flowOk, expiresOn, writeOk) ==
    IF ~initOk THEN [ok |-> FALSE, cache |-> cache, expiresOn |-> 0]
    ELSE IF cache.exists /\ isTokenValid(cache, time)
    THEN [ok |-> TRUE, cache |-> cache, expiresOn |-> cache.expiresOn]
    ELSE IF ~flowOk THEN [ok |-> FALSE, cache |-> cache, expiresOn |-> 0]
    ELSE [ok |-> TRUE,
          cache |-> cacheToken(cache, AcquiredToken(expiresOn), writeOk),
          expiresOn |-> expiresOn]

\* getAccessToken reaches acquireTokenSilent: initializeMsal went through, the
\* cached token is not valid and cachedToken?.refreshToken is truthy
attemptsSilentRefresh(cache, time, initOk) ==
    /\ initOk
    /\ ~(cache.exists /\ isTokenValid(cache, time))
    /\ cache.exists /\ Truthy(cache.refreshToken)

\* clearAuth: rm -f of the token file when it exists; a failure is caught
clearAuth(cache, removed) == IF cache.exists /\ removed THEN NoFile ELSE cache

\* one call made on the AuthManager object: ok is the boolean returned,
\* token the string returned, at the time of the call; the log adds the
\* token file the call found (cache) and whether msalInstance was set when
\* it returned (msal)
\* silent tells whether the call went to acquireTokenSilent
AuthCall(op, ok, token, at, expiresOn, silent) ==
    [op |-> op, ok |-> ok, token |-> token, at |-> at, expiresOn |-> expiresOn,
     silent |-> silent]

\* new AuthManager(): msalInstance is null
NewAuthManager == [msalInstance |-> FALSE, calls |-> <<>>]

(***************************************************************************)
(* EmailDownloader: pure parts                                             *)
(***************************************************************************)
\* specialFolders[normalizedFolderName], NullString when the key is missing
specialFolders(name) ==
    CASE name = Str_inbox -> Str_inbox
      [] name = Str_sent -> Str_sentitems
      [] name = Str_drafts -> Str_drafts
      [] name = Str_deleted -> Str_deleteditems
      [] name = Str_junk -> Str_junkemail
      [] OTHER -> NullString

\* getEmailCount: typeof data === "number" ? data : 0, then Math.min(count, limit)
ClampCount(answer, limit) ==
    Min(IF answer.isNumber THEN answer.value ELSE 0, limit)

\* options.batchSize || 50
BatchSizeOf(opts) == IF opts.batchSize = 0 THEN DefaultBatchSize ELSE opts.batchSize

\* the while condition of downloadEmailsBatch
LoopCondition(downloaded, total, limit) == downloaded < total /\ downloaded < limit

\* RemainingEmails without the clamps: every page asks for a whole batch
RemainingEmails_Unclamped(batchSize, limit, total, downloaded) == batchSize

\* Math.min(batchSize, options.limit - downloadedCount, totalEmails - downloadedCount)
RemainingEmails(batchSize, limit, total, downloaded) ==
    Min(batchSize, Min(limit - downloaded, total - downloaded))

\* getNextPageToken
getNextPageToken(currentCount, batchSize) == NumToString(currentCount)

\* skipToken after a page: the next offset after a full page, null otherwise
NextSkipToken(got, asked, downloaded, batchSize) ==
    IF got = asked THEN getNextPageToken(downloaded, batchSize) ELSE NullString

\* the $skip a page request carries: params["$skip"] is set only for a truthy token
SkipParam(token) == IF Truthy(token) THEN StringToNum(token) ELSE 0

\* the server's answer to $top/$skip over the folder, newest first
PageOf(box, top, skip) == SubSeq(box, skip + 1, Min(Len(box), skip + top))

\* index of the first email at or after position from that has attachments,
\* 0 when there is none: the for-of loop of fetchEmailBatch skips the others
RECURSIVE NextFlagged(_, _)
NextFlagged_None(es, from) == 0

NextFlagged(es, from) ==
    IF from > Len(es) THEN 0
    ELSE IF es[from].hasAttachments THEN from
    ELSE NextFlagged(es, from + 1)

\* the staged content of an email: {...email, downloadedAt}
EmailData(email, time) ==
    [email |-> email, downloadedAt |-> time, complete |-> TRUE]

\* what a write that failed half way leaves behind
PartialData(email, time) ==
    [email |-> email, downloadedAt |-> time, complete |-> FALSE]

WriteFile(fs, name, data) ==
    [n \in DOMAIN fs \cup {name} |-> IF n = name THEN data ELSE fs[n]]

\* one request to the mailbox API: got is the number of items answered, -1
\* when the request failed; about is the message an attachment request is for
Request(kind, top, skip, got, about) ==
    [kind |-> kind, top |-> top, skip |-> skip, got |-> got, about |-> about]

\* getFolderId after the lookup answered: the first match, or a throw
ResolveFolder(folders) ==
    IF Len(folders) = 0 THEN [thrown |-> TRUE, id |-> NullString]
    ELSE [thrown |-> FALSE, id |-> folders[1].id]

\* fetchEmailAttachments with a catch that rethrows
fetchEmailAttachments_Rethrow(id, ok) ==
    IF ok THEN [thrown |-> FALSE, items |-> AttachmentsOf(id)]
    ELSE [thrown |-> TRUE, items |-> <<>>]

\* fetchEmailAttachments: response.data.value, or [] from the catch
fetchEmailAttachments(id, ok) ==
    IF ok THEN [thrown |-> FALSE, items |-> AttachmentsOf(id)]
    ELSE [thrown |-> FALSE, items |-> <<>>]

\* saveEmailsBatch without its try/catch: a failed write ends the run
\* Math.round((downloadedCount / totalEmails) * 100) in IEEE doubles.  The
\* quotient is rounded to a double before it is multiplied, so the product
\* can fall just below a half that the exact value 100 * current / total
\* hits; Math.round then rounds down.  For totals up to 1000 this happens
\* exactly for the fractions 23/40, 29/200, 57/200 and 113/200.
RoundHalfUp(num, den) == (2 * num + den) \div (2 * den)

ProductBelowHalf(current, total) ==
    \/ 40 * current = 23 * total
    \/ 200 * current \in {29 * total, 57 * total, 113 * total}

Percentage(current, total) ==
    IF ProductBelowHalf(current, total)
    THEN RoundHalfUp(100 * current, total) - 1
    ELSE RoundHalfUp(100 * current, total)

\* the ProgressInfo of downloadEmailsBatch, without its message
ProgressInfo(current, total) ==
    [current |-> current, total |-> total,
     percentage |-> Percentage(current, total)]

WriteFailureThrows_NoCatch == TRUE

\* saveEmailsBatch: the catch around the write logs and goes on
WriteFailureThrows == FALSE

\* downloadedCount += emails.length without the addition
NextDownloadedCount_Stuck(downloaded, got) == downloaded

\* downloadedCount += emails.length
NextDownloadedCount(downloaded, got) == downloaded + got

\* downloadEmails without the check of the token
TokenMissing_Unchecked(token) == FALSE

\* downloadEmails: if (!accessToken) throw
TokenMissing(token) == ~Truthy(token)

(***************************************************************************)
(* Inputs.                                                                 *)
(***************************************************************************)
CliDefaults ==
    [folder |-> Str_inbox, limit |-> DefaultLimit, batchSize |-> 0,
     includeAttachments |-> FALSE]

\* DownloadOptions: as the commands build them (batchSize and
\* includeAttachments unset), with any folder; and as a caller of
\* EmailDownloader may pass them for the inbox
OptionChoices ==
    {[folder |-> f, limit |-> MaxLimit, batchSize |-> 0,
      includeAttachments |-> FALSE] : f \in FolderNames}
    \cup
    [folder : {Str_inbox}, limit : 0..MaxLimit, batchSize : 0..MaxBatch,
     includeAttachments : BOOLEAN]
    \cup {CliDefaults}

CountAnswers ==
    {[isNumber |-> FALSE, value |-> 0]}
    \cup {[isNumber |-> TRUE, value |-> v] : v \in 0..MaxCount}

\* token-cache.json at the start: absent, or a token that expires five
\* minutes from now, or one tick later than that
TokenFiles == {NoFile, TokenFile(FiveMinutes), TokenFile(FiveMinutes + TickMs)}

IsBulk == Len(mailbox) >= BulkHeld

\* the runs with a large mailbox use the defaults of the command line
IsLarge == Len(mailbox) > MaxHeld

Init ==
    /\ cmd \in {"download", "full"}
    /\ pc = "cli_start"
    /\ exitCode = -1
    /\ failure = "none"
    /\ options = CliDefaults
    /\ tokenCache \in TokenFiles
    /\ now = 0
    /\ ticks = 0
    /\ \/ /\ \E held \in 0..MaxHeld : mailbox = [i \in 1..held |-> Rec(i)]
          /\ serverCount \in CountAnswers
          /\ faults = MaxFaults
       \/ /\ mailbox = [i \in 1..BulkHeld |-> Rec(i)]
          /\ serverCount = [isNumber |-> TRUE, value |-> BulkCount]
          /\ faults = 0
       \/ /\ mailbox = [i \in 1..HalfHeld |-> Rec(i)]
          /\ serverCount = [isNumber |-> TRUE, value |-> HalfCount]
          /\ faults = 0
    /\ accessToken = NullString
    /\ folderId = NullString
    /\ totalEmails = 0
    /\ downloadedCount = 0
    /\ skipToken = NullString
    /\ remainingEmails = 0
    /\ emails = <<>>
    /\ idx = 0
    /\ keepFile = FALSE
    /\ files = <<>>
    /\ requests = <<>>
    /\ tokenCalls = 0
    /\ saved = <<>>
    /\ progress = <<>>
    /\ authManager = NewAuthManager

(***************************************************************************)
(* Steps of the commands of index.ts.                                      *)
(***************************************************************************)
\* the catch of the command: logger.error, process.exit(1)
Exit1(kind) ==
    /\ pc' = "exited"
    /\ exitCode' = 1
    /\ failure' = kind

\* time passes while the command waits for the credential provider
Tick ==
    /\ pc \in {"cli_start", "cli_options", "dl_token"}
    /\ ticks < MaxTicks
    /\ now' = now + TickMs
    /\ ticks' = ticks + 1
    /\ UNCHANGED <<cmd, pc, exitCode, failure, options, tokenCache, mailbox,
                   serverCount, faults, accessToken, folderId, totalEmails,
                   downloadedCount, skipToken, remainingEmails, emails, idx,
                   keepFile, files, requests, tokenCalls, saved, progress,
                   authManager>>

\* download/full: authManager.isAuthenticated(), process.exit(1) when false
CheckAuthenticated ==
    /\ pc = "cli_start"
    /\ IF isAuthenticated(tokenCache, now)
       THEN pc' = "cli_options" /\ UNCHANGED <<exitCode, failure>>
       ELSE Exit1("not_authenticated")
    /\ UNCHANGED <<cmd, options, tokenCache, now, ticks, mailbox, serverCount,
                   faults, accessToken, folderId, totalEmails,
                   downloadedCount, skipToken, remainingEmails, emails, idx,
                   keepFile, files, requests, tokenCalls, saved, progress,
                   authManager>>

\* download/full: the DownloadOptions, then the call of downloadEmails
BuildOptions ==
    /\ pc = "cli_options"
    /\ options' \in (IF IsLarge THEN {CliDefaults} ELSE OptionChoices)
    /\ pc' = "dl_token"
    /\ UNCHANGED <<cmd, exitCode, failure, tokenCache, now, ticks, mailbox,
                   serverCount, faults, accessToken, folderId, totalEmails,
                   downloadedCount, skipToken, remainingEmails, emails, idx,
                   keepFile, files, requests, tokenCalls, saved, progress,
                   authManager>>

(***************************************************************************)
(* Steps of EmailDownloader.downloadEmails.                                *)
(***************************************************************************)
\* const accessToken = await this.authManager.getAccessToken()
GetAccessToken ==
    /\ pc = "dl_token"
    /\ \E initOk \in BOOLEAN, refreshed \in BOOLEAN, writeOk \in BOOLEAN :
          LET r == getAccessToken(tokenCache, now, initOk, refreshed, writeOk) IN
          /\ tokenCache' = r.cache
          /\ accessToken' = r.token
          /\ tokenCalls' = tokenCalls + 1
          /\ IF TokenMissing(r.token)
             THEN Exit1("no_token")
             ELSE pc' = "dl_mkdir" /\ UNCHANGED <<exitCode, failure>>
    /\ UNCHANGED <<cmd, options, now, ticks, mailbox, serverCount, faults,
                   folderId, totalEmails, downloadedCount, skipToken,
                   remainingEmails, emails, idx, keepFile, files, requests,
                   saved, progress, authManager>>

\* await this.ensureOutputDirectory(options.outputPath)
EnsureOutputDirectory ==
    /\ pc = "dl_mkdir"
    /\ \E ok \in BOOLEAN :
          IF ok
          THEN keepFile' = TRUE /\ pc' = "dl_folder"
               /\ UNCHANGED <<exitCode, failure>>
          ELSE UNCHANGED keepFile /\ Exit1("output_directory")
    /\ UNCHANGED <<cmd, options, tokenCache, now, ticks, mailbox, serverCount,
                   faults, accessToken, folderId, totalEmails,
                   downloadedCount, skipToken, remainingEmails, emails, idx,
                   files, requests, tokenCalls, saved, progress, authManager>>

\* getFolderId for a well-known name: no request
GetFolderIdSpecial ==
    /\ pc = "dl_folder"
    /\ Truthy(specialFolders(ToLowerCase(options.folder)))
    /\ folderId' = specialFolders(ToLowerCase(options.folder))
    /\ pc' = "dl_count"
    /\ UNCHANGED <<cmd, exitCode, failure, options, tokenCache, now, ticks,
                   mailbox, serverCount, faults, accessToken, totalEmails,
                   downloadedCount, skipToken, remainingEmails, emails, idx,
                   keepFile, files, requests, tokenCalls, saved, progress,
                   authManager>>

\* getFolderId for any other name: GET /me/mailFolders filtered by displayName
GetFolderIdLookup ==
    /\ pc = "dl_folder"
    /\ ~Truthy(specialFolders(ToLowerCase(options.folder)))
    /\ \E ok \in BOOLEAN, matches \in 0..2 :
          LET folders == [i \in 1..matches |-> CustomFolder(i)]
              r == ResolveFolder(folders) IN
          IF ~ok
          THEN /\ requests' = Append(requests, Request("folders", 0, 0, -1, <<>>))
               /\ Exit1("folder_lookup_failed")
               /\ UNCHANGED folderId
          ELSE /\ requests' = Append(requests,
                                     Request("folders", 0, 0, matches, <<>>))
               /\ IF r.thrown
                  THEN Exit1("folder_not_found") /\ UNCHANGED folderId
                  ELSE /\ folderId' = r.id
                       /\ pc' = "dl_count"
                       /\ UNCHANGED <<exitCode, failure>>
    /\ UNCHANGED <<cmd, options, tokenCache, now, ticks, mailbox, serverCount,
                   faults, accessToken, totalEmails, downloadedCount,
                   skipToken, remainingEmails, emails, idx, keepFile, files,
                   tokenCalls, saved, progress, authManager>>

\* getEmailCount, then the totalEmails === 0 return of downloadEmails
GetEmailCount ==
    /\ pc = "dl_count"
    /\ \E ok \in BOOLEAN :
          IF ~ok
          THEN /\ requests' = Append(requests, Request("count", 0, 0, -1, <<>>))
               /\ Exit1("count_failed")
               /\ UNCHANGED totalEmails
          ELSE /\ requests' = Append(requests, Request("count", 0, 0, 1, <<>>))
               /\ totalEmails' = ClampCount(serverCount, options.limit)
               /\ pc' = IF totalEmails' = 0 THEN "cli_downloaded" ELSE "dl_loop"
               /\ UNCHANGED <<exitCode, failure>>
    /\ UNCHANGED <<cmd, options, tokenCache, now, ticks, mailbox, serverCount,
                   faults, accessToken, folderId, downloadedCount, skipToken,
                   remainingEmails, emails, idx, keepFile, files, tokenCalls,
                   saved, progress, authManager>>

(***************************************************************************)
(* Steps of EmailDownloader.downloadEmailsBatch.                           *)
(***************************************************************************)
\* where the iteration goes once fetchEmailBatch returned the page es:
\* break on an empty page, saveEmailsBatch otherwise
AfterFetch(es) ==
    IF Len(es) = 0
    THEN pc' = "cli_downloaded" /\ idx' = 0
    ELSE pc' = "dl_save" /\ idx' = 1

\* one iteration up to the answer of the page request: the while condition,
\* remainingEmails, and the GET of fetchEmailBatch, which may fail
FetchEmailBatch ==
    /\ pc = "dl_loop"
    /\ LoopCondition(downloadedCount, totalEmails, options.limit)
    /\ LET asked == RemainingEmails(BatchSizeOf(options), options.limit,
                                    totalEmails, downloadedCount)
           skip == SkipParam(skipToken) IN
       \E ok \in BOOLEAN :
          IF ~ok
          THEN /\ requests' = Append(requests,
                                     Request("page", asked, skip, -1, <<>>))
               /\ Exit1("page_failed")
               /\ UNCHANGED <<remainingEmails, emails, idx>>
          ELSE LET page == PageOf(mailbox, asked, skip) IN
               /\ requests' = Append(requests,
                                     Request("page", asked, skip, Len(page), <<>>))
               /\ remainingEmails' = asked
               /\ emails' = page
               /\ UNCHANGED <<exitCode, failure>>
               /\ IF options.includeAttachments /\ NextFlagged(page, 1) # 0
                  THEN pc' = "dl_attach" /\ idx' = NextFlagged(page, 1)
                  ELSE AfterFetch(page)
    /\ UNCHANGED <<cmd, options, tokenCache, now, ticks, mailbox, serverCount,
                   faults, accessToken, folderId, totalEmails,
                   downloadedCount, skipToken, keepFile, files, tokenCalls,
                   saved, progress, authManager>>

\* the attachment request for the next email of the page that has attachments
FetchEmailAttachments ==
    /\ pc = "dl_attach"
    /\ \E ok \in BOOLEAN :
          LET id == emails[idx].id
              r == fetchEmailAttachments(id, ok)
              es == [emails EXCEPT
                       ![idx].attachments = [present |-> TRUE, items |-> r.items]]
              next == NextFlagged(emails, idx + 1) IN
          /\ requests' = Append(requests,
                Request("attachments", 0, 0, IF ok THEN Len(r.items) ELSE -1, id))
          /\ IF r.thrown
             THEN Exit1("attachment_failed") /\ UNCHANGED <<emails, idx>>
             ELSE /\ emails' = es
                  /\ UNCHANGED <<exitCode, failure>>
                  /\ IF next # 0
                     THEN pc' = "dl_attach" /\ idx' = next
                     ELSE AfterFetch(es)
    /\ UNCHANGED <<cmd, options, tokenCache, now, ticks, mailbox, serverCount,
                   faults, accessToken, folderId, totalEmails,
                   downloadedCount, skipToken, remainingEmails, keepFile,
                   files, tokenCalls, saved, progress, authManager>>

\* saveEmailsBatch for one email: Bun.write of the file, a failure is caught.
\* After the last email of the page: downloadedCount, skipToken.
SaveEmail ==
    /\ pc = "dl_save"
    /\ LET email == emails[idx]
           name == generateEmailFileName(email) IN
       \E outcome \in {"written"} \cup
                      (IF faults > 0 THEN {"failed", "torn"} ELSE {}) :
          /\ files' = CASE outcome = "written" ->
                             WriteFile(files, name, EmailData(email, now))
                        [] outcome = "torn" ->
                             WriteFile(files, name, PartialData(email, now))
                        [] OTHER -> files
          /\ faults' = IF outcome = "written" THEN faults ELSE faults - 1
          /\ saved' = Append(saved, [id |-> email.id, name |-> name,
                                     email |-> email,
                                     ok |-> (outcome = "written"),
                                     torn |-> (outcome = "torn")])
          /\ IF outcome # "written" /\ WriteFailureThrows
             THEN /\ Exit1("save_failed")
                  /\ UNCHANGED <<downloadedCount, skipToken, emails, idx,
                                 progress>>
             ELSE /\ UNCHANGED <<exitCode, failure>>
                  /\ IF idx < Len(emails)
                     THEN /\ idx' = idx + 1
                          /\ UNCHANGED <<pc, downloadedCount, skipToken,
                                         emails, progress>>
                     ELSE /\ downloadedCount' =
                                NextDownloadedCount(downloadedCount, Len(emails))
                          /\ skipToken' =
                                NextSkipToken(Len(emails), remainingEmails,
                                              downloadedCount', BatchSizeOf(options))
                          /\ progress' =
                                Append(progress,
                                       ProgressInfo(downloadedCount', totalEmails))
                          /\ emails' = <<>>
                          /\ idx' = 0
                          /\ pc' = "dl_loop"
    /\ UNCHANGED <<cmd, options, tokenCache, now, ticks, mailbox, serverCount,
                   accessToken, folderId, totalEmails, remainingEmails,
                   keepFile, requests, tokenCalls, authManager>>

\* the while condition is false: downloadEmailsBatch and downloadEmails return
LoopExit ==
    /\ pc = "dl_loop"
    /\ ~LoopCondition(downloadedCount, totalEmails, options.limit)
    /\ pc' = "cli_downloaded"
    /\ UNCHANGED <<cmd, exitCode, failure, options, tokenCache, now, ticks,
                   mailbox, serverCount, faults, accessToken, folderId,
                   totalEmails, downloadedCount, skipToken, remainingEmails,
                   emails, idx, keepFile, files, requests, tokenCalls, saved,
                   progress, authManager>>

(***************************************************************************)
(* The mailbox changes on the server between two page requests.            *)
(***************************************************************************)
MailArrives ==
    /\ pc = "dl_loop"
    /\ faults > 0
    /\ downloadedCount > 0
    /\ mailbox' = <<Rec(Len(mailbox) + 1)>> \o mailbox
    /\ faults' = faults - 1
    /\ UNCHANGED <<cmd, pc, exitCode, failure, options, tokenCache, now,
                   ticks, serverCount, accessToken, folderId, totalEmails,
                   downloadedCount, skipToken, remainingEmails, emails, idx,
                   keepFile, files, requests, tokenCalls, saved, progress,
                   authManager>>

DraftEdited ==
    /\ pc = "dl_loop"
    /\ faults > 0
    /\ downloadedCount > 0
    /\ \E i \in 1..Len(mailbox) :
          mailbox' = [mailbox EXCEPT ![i].subject = EditedSubject,
                                     ![i].isRead = TRUE]
    /\ faults' = faults - 1
    /\ UNCHANGED <<cmd, pc, exitCode, failure, options, tokenCache, now,
                   ticks, serverCount, accessToken, folderId, totalEmails,
                   downloadedCount, skipToken, remainingEmails, emails, idx,
                   keepFile, files, requests, tokenCalls, saved, progress,
                   authManager>>

(***************************************************************************)
(* After downloadEmails returned.                                          *)
(***************************************************************************)
\* a full pipeline that removes ./temp-emails before the export has run
DownloadReturned_CleansFirst ==
    /\ pc = "cli_downloaded"
    /\ IF cmd = "download"
       THEN pc' = "exited" /\ exitCode' = 0 /\ UNCHANGED <<keepFile, files>>
       ELSE /\ pc' = "cli_export" /\ UNCHANGED exitCode
            /\ keepFile' = FALSE /\ files' = <<>>
    /\ UNCHANGED <<cmd, failure, options, tokenCache, now, ticks, mailbox,
                   serverCount, faults, accessToken, folderId, totalEmails,
                   downloadedCount, skipToken, remainingEmails, emails, idx,
                   requests, tokenCalls, saved, progress, authManager>>

\* download: "Email download completed"; full: on to the export
DownloadReturned ==
    /\ pc = "cli_downloaded"
    /\ IF cmd = "download"
       THEN pc' = "exited" /\ exitCode' = 0
       ELSE pc' = "cli_export" /\ UNCHANGED exitCode
    /\ UNCHANGED <<cmd, failure, options, tokenCache, now, ticks, mailbox,
                   serverCount, faults, accessToken, folderId, totalEmails,
                   downloadedCount, skipToken, remainingEmails, emails, idx,
                   keepFile, files, requests, tokenCalls, saved, progress,
                   authManager>>

\* full: exporter.exportToMbox(exportOptions) returns or throws
ExportToMbox ==
    /\ pc = "cli_export"
    /\ \E ok \in BOOLEAN :
          IF ok THEN pc' = "cli_cleanup" /\ UNCHANGED <<exitCode, failure>>
          ELSE Exit1("export_failed")
    /\ UNCHANGED <<cmd, options, tokenCache, now, ticks, mailbox, serverCount,
                   faults, accessToken, folderId, totalEmails,
                   downloadedCount, skipToken, remainingEmails, emails, idx,
                   keepFile, files, requests, tokenCalls, saved, progress,
                   authManager>>

\* full: rm -rf ./temp-emails, then "Full pipeline completed successfully"
Cleanup ==
    /\ pc = "cli_cleanup"
    /\ keepFile' = FALSE
    /\ files' = <<>>
    /\ pc' = "exited"
    /\ exitCode' = 0
    /\ UNCHANGED <<cmd, failure, options, tokenCache, now, ticks, mailbox,
                   serverCount, faults, accessToken, folderId, totalEmails,
                   downloadedCount, skipToken, remainingEmails, emails, idx,
                   requests, tokenCalls, saved, progress, authManager>>

\* The process is stopped from outside (SIGINT/SIGTERM).  The program
\* installs no handler, so it ends where it stands; a Bun.write under way
\* (part_001:316) is cut at an arbitrary point: the file is untouched, partly
\* written or whole.
StopSignal ==
    /\ pc \notin {"cli_start", "exited"}
    /\ pc' = "exited"
    /\ exitCode' = 130
    /\ failure' = "stopped"
    /\ IF pc = "dl_save"
       THEN LET email == emails[idx]
                name == generateEmailFileName(email) IN
            \E cut \in {"before", "during", "after"} :
               files' = CASE cut = "during" -> WriteFile(files, name, PartialData(email, now))
                          [] cut = "after" -> WriteFile(files, name, EmailData(email, now))
                          [] OTHER -> files
       ELSE files' = files
    /\ UNCHANGED <<cmd, options, tokenCache, now, ticks, mailbox, serverCount,
                   faults, accessToken, folderId, totalEmails,
                   downloadedCount, skipToken, remainingEmails, emails, idx,
                   keepFile, requests, tokenCalls, saved, progress,
                   authManager>>

\* The user starts the same command again after a fatal error (index.ts:
\* 151-169 with the same arguments): a new process, so every local of the
\* downloader starts afresh, while the staging directory, the token cache and
\* the mailbox are what the first run left.  The request log notes the point.
Rerun ==
    /\ pc = "exited" /\ exitCode = 1
    /\ files # <<>>
    /\ \A i \in 1..Len(requests) : requests[i].kind # "rerun"
    /\ isAuthenticated(tokenCache, now)
    /\ pc' = "dl_token"
    /\ exitCode' = -1
    /\ failure' = "none"
    /\ accessToken' = NullString
    /\ folderId' = NullString
    /\ totalEmails' = 0
    /\ downloadedCount' = 0
    /\ skipToken' = NullString
    /\ remainingEmails' = 0
    /\ emails' = <<>>
    /\ idx' = 0
    /\ requests' = Append(requests, Request("rerun", 0, 0, Len(saved), <<>>))
    /\ UNCHANGED <<cmd, options, tokenCache, now, ticks, mailbox, serverCount,
                   faults, keepFile, files, tokenCalls, saved, progress,
                   authManager>>

(***************************************************************************)
(* Calls on one AuthManager object, in any order (auth, logout and status  *)
(* commands of index.ts, and the downloader).                              *)
(***************************************************************************)
MayCall == pc = "auth" /\ Len(authManager.calls) < MaxCalls

Called(call, msal) ==
    authManager' = [msalInstance |-> msal,
                    calls |-> Append(authManager.calls,
                                     call @@ [cache |-> tokenCache,
                                              msal |-> msal])]

CallAuthenticate ==
    /\ MayCall
    /\ \E init \in BOOLEAN, flowOk \in BOOLEAN, writeOk \in BOOLEAN,
          expiresOn \in {now + FiveMinutes, now + FiveMinutes + TickMs} :
          LET initOk == authManager.msalInstance \/ init
              r == authenticate(tokenCache, now, initOk, flowOk, expiresOn,
                                writeOk) IN
          /\ tokenCache' = r.cache
          /\ Called(AuthCall("authenticate", r.ok, NullString, now, r.expiresOn,
                             FALSE),
                    initOk)
    /\ UNCHANGED <<cmd, pc, exitCode, failure, options, now, ticks, mailbox,
                   serverCount, faults, accessToken, folderId, totalEmails,
                   downloadedCount, skipToken, remainingEmails, emails, idx,
                   keepFile, files, requests, tokenCalls, saved, progress>>

CallIsAuthenticated ==
    /\ MayCall
    /\ Called(AuthCall("isAuthenticated", isAuthenticated(tokenCache, now),
                       NullString, now, 0, FALSE),
              authManager.msalInstance)
    /\ UNCHANGED <<cmd, pc, exitCode, failure, options, tokenCache, now, ticks,
                   mailbox, serverCount, faults, accessToken, folderId,
                   totalEmails, downloadedCount, skipToken, remainingEmails,
                   emails, idx, keepFile, files, requests, tokenCalls, saved,
                   progress>>

CallGetAccessToken ==
    /\ MayCall
    /\ \E init \in BOOLEAN, refreshed \in BOOLEAN, writeOk \in BOOLEAN :
          LET initOk == authManager.msalInstance \/ init
              r == getAccessToken(tokenCache, now, initOk, refreshed, writeOk) IN
          /\ tokenCache' = r.cache
          /\ Called(AuthCall("getAccessToken", r.token # NullString, r.token,
                             now, 0,
                             attemptsSilentRefresh(tokenCache, now, initOk)),
                    initOk)
    /\ UNCHANGED <<cmd, pc, exitCode, failure, options, now, ticks, mailbox,
                   serverCount, faults, accessToken, folderId, totalEmails,
                   downloadedCount, skipToken, remainingEmails, emails, idx,
                   keepFile, files, requests, tokenCalls, saved, progress>>

CallClearAuth ==
    /\ MayCall
    /\ \E removed \in BOOLEAN :
          tokenCache' = clearAuth(tokenCache, removed)
    /\ Called(AuthCall("clearAuth", TRUE, NullString, now, 0, FALSE),
              authManager.msalInstance)
    /\ UNCHANGED <<cmd, pc, exitCode, failure, options, now, ticks, mailbox,
                   serverCount, faults, accessToken, folderId, totalEmails,
                   downloadedCount, skipToken, remainingEmails, emails, idx,
                   keepFile, files, requests, tokenCalls, saved, progress>>

\* time passes between two calls
ClockTick ==
    /\ pc = "auth"
    /\ ticks < MaxTicks
    /\ now' = now + TickMs
    /\ ticks' = ticks + 1
    /\ UNCHANGED <<cmd, pc, exitCode, failure, options, tokenCache, mailbox,
                   serverCount, faults, accessToken, folderId, totalEmails,
                   downloadedCount, skipToken, remainingEmails, emails, idx,
                   keepFile, files, requests, tokenCalls, saved, progress,
                   authManager>>

Next ==
    \/ Tick
    \/ CheckAuthenticated
    \/ BuildOptions
    \/ GetAccessToken
    \/ EnsureOutputDirectory
    \/ GetFolderIdSpecial
    \/ GetFolderIdLookup
    \/ GetEmailCount
    \/ FetchEmailBatch
    \/ FetchEmailAttachments
    \/ SaveEmail
    \/ LoopExit
    \/ MailArrives
    \/ DraftEdited
    \/ DownloadReturned
    \/ ExportToMbox
    \/ Cleanup

Spec == Init /\ [][Next]_vars

\* the same program with a stop signal that may arrive at any point
NextStop ==
    \/ Next
    \/ StopSignal

SpecStop == Init /\ [][NextStop]_vars

\* the same program, started a second time after a fatal error
NextRerun ==
    \/ Next
    \/ Rerun

SpecRerun == Init /\ [][NextRerun]_vars

\* one AuthManager object and the calls made on it
InitAuth ==
    /\ cmd = "auth"
    /\ pc = "auth"
    /\ exitCode = -1
    /\ failure = "none"
    /\ options = CliDefaults
    /\ tokenCache \in TokenFiles
    /\ now = 0
    /\ ticks = 0
    /\ mailbox = <<>>
    /\ serverCount = [isNumber |-> TRUE, value |-> 0]
    /\ faults = 0
    /\ accessToken = NullString
    /\ folderId = NullString
    /\ totalEmails = 0
    /\ downloadedCount = 0
    /\ skipToken = NullString
    /\ remainingEmails = 0
    /\ emails = <<>>
    /\ idx = 0
    /\ keepFile = FALSE
    /\ files = <<>>
    /\ requests = <<>>
    /\ tokenCalls = 0
    /\ saved = <<>>
    /\ progress = <<>>
    /\ authManager = NewAuthManager

NextAuth ==
    \/ CallAuthenticate
    \/ CallIsAuthenticated
    \/ CallGetAccessToken
    \/ CallClearAuth
    \/ ClockTick

SpecAuth == InitAuth /\ [][NextAuth]_vars

(***************************************************************************)
(* The history of a run.                                                   *)
(***************************************************************************)
IsPage(r) == r.kind = "page"
IsAttachment(r) == r.kind = "attachments"

\* the page requests of the run, in order
PageRequests == SelectSeq(requests, IsPage)

\* the page requests that were answered
AnsweredPage(r) == r.kind = "page" /\ r.got >= 0
AnsweredPages == SelectSeq(requests, AnsweredPage)

FailedPage(r) == r.kind = "page" /\ r.got < 0
FailedPages == SelectSeq(requests, FailedPage)

RECURSIVE SumGot(_)
SumGot(rs) == IF Len(rs) = 0 THEN 0 ELSE rs[1].got + SumGot(Tail(rs))

\* records fetched over all pages of the run
FetchedTotal == SumGot(AnsweredPages)

\* a page that returned some records, but fewer than the $top it was asked for
ShortPage(r) == r.kind = "page" /\ r.got >= 0 /\ r.got < r.top

\* the number the count query reported, as getEmailCount reads it
ReportedCount == IF serverCount.isNumber THEN serverCount.value ELSE 0

\* downloadEmails has counted the emails and not failed since
Counted == pc \in {"dl_loop", "dl_attach", "dl_save", "cli_downloaded"}

(***************************************************************************)
(* C1: a page that returns fewer records than requested ends pagination:   *)
(* no page request follows it; in the bulk run (pages of 50, 50 and 23,    *)
(* limit 1000, stale count 200) exactly BulkHeld records are fetched with  *)
(* exactly 3 page requests.                                                *)
(***************************************************************************)
C1_ShortPageEndsPagination ==
    /\ \A i \in 1..Len(PageRequests) :
          ShortPage(PageRequests[i]) => i = Len(PageRequests)
    /\ (IsBulk /\ pc = "cli_downloaded") =>
          (FetchedTotal = BulkHeld /\ Len(PageRequests) = 3)

(***************************************************************************)
(* C2: pagination ends only after a page that returned fewer records than  *)
(* requested (or none) or when limit records were fetched; while the count *)
(* reported is below what the server holds, every page was full and the    *)
(* limit is not reached, another page is requested.                        *)
(***************************************************************************)
AllPagesFull == \A i \in 1..Len(PageRequests) :
                    PageRequests[i].got = PageRequests[i].top

C2_CountNeverEndsPagination ==
    /\ (pc = "cli_downloaded" /\ Len(PageRequests) > 0) =>
          \/ PageRequests[Len(PageRequests)].got < PageRequests[Len(PageRequests)].top
          \/ downloadedCount >= options.limit
    /\ (pc = "dl_loop" /\ AllPagesFull /\ downloadedCount < options.limit
          /\ ReportedCount < Len(mailbox)) =>
          LoopCondition(downloadedCount, totalEmails, options.limit)

(***************************************************************************)
(* C3: the records fetched over all pages never exceed                     *)
(* min(limit, reported count), and the total the loop uses is the reported *)
(* count clamped to the limit.  (The server of the model answers a page    *)
(* with at most $top records.)                                             *)
(***************************************************************************)
C3_FetchBounded ==
    Counted =>
       /\ FetchedTotal <= Min(options.limit, ReportedCount)
       /\ totalEmails = Min(ReportedCount, options.limit)
       /\ \A i \in 1..Len(AnsweredPages) : AnsweredPages[i].got <= AnsweredPages[i].top

\* a run of several pages that fetched exactly the reported count, which is
\* below the limit, from a mailbox that holds more
C3_Witness ==
    /\ pc = "cli_downloaded"
    /\ Len(AnsweredPages) > 1
    /\ FetchedTotal = ReportedCount
    /\ ReportedCount < options.limit
    /\ Len(mailbox) > FetchedTotal

(***************************************************************************)
(* C4: the $skip offset of successive page requests is monotonic: it       *)
(* advances only after a full page and never moves backwards.              *)
(***************************************************************************)
C4_CursorMonotonic ==
    \A i \in 1..(Len(PageRequests) - 1) :
       /\ PageRequests[i + 1].skip >= PageRequests[i].skip
       /\ PageRequests[i + 1].skip > PageRequests[i].skip =>
             PageRequests[i].got = PageRequests[i].top

(***************************************************************************)
(* C5: staging is idempotent per id: when the same id is staged twice in a *)
(* run, both times under the same file name, and the directory holds one   *)
(* file for that id.  (Stated for runs in which no write failed.)          *)
(***************************************************************************)
NoWriteFailed == \A i \in 1..Len(saved) : saved[i].ok

FilesOfId(id) == {n \in DOMAIN files : files[n].email.id = id}

C5_StagingIdempotentPerId ==
    NoWriteFailed =>
       \A i \in 1..Len(saved) : \A j \in 1..Len(saved) :
          (i < j /\ saved[i].id = saved[j].id) =>
             /\ saved[i].name = saved[j].name
             /\ Cardinality(FilesOfId(saved[i].id)) = 1

(***************************************************************************)
(* C6: file names are collision-free: two records with different ids never *)
(* get the same file name.                                                 *)
(***************************************************************************)
C6_FileNamesCollisionFree ==
    \A i \in 1..Len(saved) : \A j \in 1..Len(saved) :
       saved[i].id # saved[j].id => saved[i].name # saved[j].name

(***************************************************************************)
(* C7: with attachment fetch requested, a failed attachment request gives  *)
(* its record an empty attachment list and nothing else: the other records *)
(* of the page keep the attachments fetched for them, every record of the  *)
(* page is handed to the staging store, and the run does not fail.         *)
(***************************************************************************)
\* positions of the page that have attachments
Flagged(es) == {i \in 1..Len(es) : es[i].hasAttachments}

\* the k-th email of es that has attachments
RECURSIVE NthFlagged(_, _, _)
NthFlagged(es, from, k) ==
    LET i == NextFlagged(es, from) IN
    IF k = 1 THEN i ELSE NthFlagged(es, i + 1, k - 1)

C7_AttachmentFailureIsolated ==
    /\ (pc = "dl_save" /\ options.includeAttachments) =>
          LET n == Cardinality(Flagged(emails))
              reqs == SubSeq(requests, Len(requests) - n + 1, Len(requests)) IN
          /\ Len(emails) = AnsweredPages[Len(AnsweredPages)].got
          /\ \A k \in 1..n :
                LET e == emails[NthFlagged(emails, 1, k)] IN
                /\ IsAttachment(reqs[k])
                /\ reqs[k].about = e.id
                /\ e.attachments.present
                /\ e.attachments.items =
                      IF reqs[k].got < 0 THEN <<>> ELSE AttachmentsOf(e.id)
          /\ \A i \in 1..Len(emails) :
                ~emails[i].hasAttachments => ~emails[i].attachments.present
    \* once the page is done, and when the run ended with an attachment
    \* request as its last request, every record fetched was handed to the store
    /\ (\/ pc \in {"dl_loop", "cli_downloaded", "cli_export", "cli_cleanup"}
        \/ /\ pc = "exited"
           /\ Len(requests) > 0
           /\ IsAttachment(requests[Len(requests)]))
          => Len(saved) = FetchedTotal

\* a finished run in which one attachment request of a page failed and
\* another succeeded, with both records staged
C7_Witness ==
    /\ pc = "exited" /\ exitCode = 0 /\ cmd = "download"
    /\ \E i \in 1..Len(saved) : \E j \in 1..Len(saved) :
          /\ saved[i].ok /\ saved[j].ok
          /\ saved[i].email.hasAttachments /\ saved[j].email.hasAttachments
          /\ saved[i].email.attachments = [present |-> TRUE, items |-> <<>>]
          /\ saved[j].email.attachments.items = AttachmentsOf(saved[j].id)
    /\ \E i \in 1..Len(requests) : IsAttachment(requests[i]) /\ requests[i].got < 0
    /\ Len(AnsweredPages) = 1

(***************************************************************************)
(* C8: a well-known folder name, in any letter case, maps to its fixed     *)
(* identifier without a request; any other name is looked up, and the run  *)
(* goes on only when the lookup returns exactly one match: zero or several *)
(* matches end it with an error before any count or page request.          *)
(***************************************************************************)
IsFolders(r) == r.kind = "folders"
FolderRequests == SelectSeq(requests, IsFolders)

C8_FolderResolution ==
    /\ Truthy(specialFolders(ToLowerCase(options.folder))) =>
          /\ Len(FolderRequests) = 0
          /\ Truthy(folderId) => folderId = specialFolders(ToLowerCase(options.folder))
    /\ \A i \in 1..Len(FolderRequests) :
          FolderRequests[i].got # 1 =>
             /\ pc = "exited" /\ exitCode = 1
             /\ Len(requests) = 1

(***************************************************************************)
(* C9: when getAccessToken returns null, downloadEmails fails at once: no  *)
(* request to the mailbox API, nothing staged, no second call of           *)
(* getAccessToken, and the command exits non-zero.                         *)
(***************************************************************************)
C9_NoTokenFailsFast ==
    (tokenCalls > 0 /\ accessToken = NullString) =>
       /\ pc = "exited" /\ exitCode = 1
       /\ requests = <<>>
       /\ saved = <<>> /\ files = <<>> /\ ~keepFile
       /\ tokenCalls = 1

\* the command passed the isAuthenticated check, the token expired while it
\* waited, and getAccessToken returned null
C9_Witness ==
    /\ tokenCalls = 1 /\ accessToken = NullString
    /\ failure = "no_token" /\ exitCode = 1
    /\ ticks > 0 /\ tokenCache.exists

(***************************************************************************)
(* C10: a failed page request is retried: a run is declared failed for a   *)
(* page request only after that request was attempted more than once.      *)
(***************************************************************************)
C10_PageFailureRetried ==
    (pc = "exited" /\ Len(FailedPages) > 0) =>
       (exitCode = 1 => Len(FailedPages) > 1)

(***************************************************************************)
(* C11: in the full pipeline the staging directory is deleted only after   *)
(* the download and the export both completed without error; when the run  *)
(* ends with a fatal error, every file written so far is still there.      *)
(***************************************************************************)
\* the names of the files the run has written, whole or torn
WrittenNames ==
    {saved[i].name : i \in {k \in 1..Len(saved) : saved[k].ok \/ saved[k].torn}}

C11_StagingKeptOnFailure ==
    /\ (pc = "exited" /\ exitCode # 0) =>
          DOMAIN files = WrittenNames
    /\ (pc # "exited" /\ Len(saved) > 0) => DOMAIN files = WrittenNames
    /\ (cmd = "full" /\ pc = "exited" /\ exitCode = 0) => files = <<>>

\* a full pipeline that failed in a page request after a page was staged
C11_Witness ==
    /\ cmd = "full" /\ pc = "exited" /\ exitCode = 1
    /\ Len(FailedPages) = 1
    /\ Len(AnsweredPages) > 0
    /\ files # <<>>
    /\ DOMAIN files = WrittenNames

(***************************************************************************)
(* C12: a failed write of one record is skipped: the other records of the  *)
(* page are still written, later pages are still fetched, the run does not *)
(* end because of it, and the failed record has no staged unit.            *)
(***************************************************************************)
\* a staged unit of the record id: a whole file holding it
HasStagedUnit(id) ==
    \E n \in DOMAIN files : files[n].complete /\ files[n].email.id = id

C12_WriteFailureSkipped ==
    /\ pc \notin {"dl_attach", "dl_save"} =>
          /\ Len(saved) = FetchedTotal
          /\ downloadedCount = FetchedTotal
    /\ pc = "dl_save" => Len(saved) = FetchedTotal - Len(emails) + idx - 1
    /\ \A i \in 1..Len(saved) :
          (/\ ~saved[i].ok
           /\ \A j \in 1..Len(saved) : saved[j].id = saved[i].id => ~saved[j].ok
           /\ pc # "exited")
             => ~HasStagedUnit(saved[i].id)

\* a download that ended well although a write of its first page failed:
\* another record of that page and a record of a later page were written
C12_Witness ==
    /\ cmd = "download" /\ pc = "exited" /\ exitCode = 0
    /\ Len(AnsweredPages) >= 2
    /\ AnsweredPages[1].got >= 2
    /\ AnsweredPages[2].got >= 1
    /\ \E i \in 1..AnsweredPages[1].got :
          /\ ~saved[i].ok /\ ~saved[i].torn
          /\ ~HasStagedUnit(saved[i].id)
          /\ \E j \in 1..AnsweredPages[1].got : j # i /\ saved[j].ok
    /\ saved[AnsweredPages[1].got + 1].ok

(***************************************************************************)
(* C13: a stop signal never leaves a partly written file in the staging    *)
(* directory: when the run was stopped and no write failed, every file     *)
(* holds a whole record; and after the signal no request is started.       *)
(***************************************************************************)
AllFilesWhole == \A n \in DOMAIN files : files[n].complete

C13_StopLeavesNoPartialFile ==
    (failure = "stopped" /\ NoWriteFailed) => AllFilesWhole

\* the second half of C13: once stopped, the request log does not grow
C13_NoRequestAfterStop ==
    [][failure = "stopped" => requests' = requests]_vars

(***************************************************************************)
(* C14: per-record failures leave the exit status at 0 while at least one  *)
(* record was staged; a download that fetched records and staged none of   *)
(* them exits non-zero.                                                    *)
(***************************************************************************)
StagedOk == {i \in 1..Len(saved) : saved[i].ok}

C14_NothingStagedExitsNonZero ==
    (/\ cmd = "download" /\ pc = "exited"
     /\ FetchedTotal > 0
     /\ StagedOk = {})
       => exitCode # 0

(***************************************************************************)
(* C15: a re-run after a fatal error resumes from the staged records: a    *)
(* record whose staged unit is already in the staging directory is not     *)
(* requested again.                                                        *)
(***************************************************************************)
RerunMarks == {i \in 1..Len(requests) : requests[i].kind = "rerun"}

\* the record had a staged unit when the second run started
StagedBefore(id) ==
    /\ HasStagedUnit(id)
    /\ \E m \in RerunMarks : \E i \in 1..requests[m].got :
          saved[i].ok /\ saved[i].id = id

C15_RerunSkipsStaged ==
    (RerunMarks # {} /\ pc \in {"dl_attach", "dl_save"}) =>
       \A k \in 1..Len(emails) : ~StagedBefore(emails[k].id)

(***************************************************************************)
(* C16: pages are fetched and staged strictly in order: a page is only     *)
(* requested when every record of the pages before it was handed to the    *)
(* store; the records of a page are handed over in the order the server    *)
(* returned them, and only after every attachment request of the page has  *)
(* finished (answered, or failed and reported as no attachments).          *)
(***************************************************************************)
\* records handed to the store before the page now held in emails
BeforePage == FetchedTotal - Len(emails)

C16_PagesInOrder ==
    /\ pc = "dl_attach" =>
          /\ Len(saved) = BeforePage
          /\ \A k \in Flagged(emails) : emails[k].attachments.present <=> k < idx
    /\ pc = "dl_save" =>
          /\ Len(saved) = BeforePage + idx - 1
          /\ \A k \in 1..(idx - 1) : saved[BeforePage + k].email = emails[k]
          /\ options.includeAttachments =>
                \A k \in Flagged(emails) : emails[k].attachments.present
    /\ (Len(requests) > 0 /\ IsPage(requests[Len(requests)])
        /\ requests[Len(requests)].got <= 0) =>
          Len(saved) = FetchedTotal

\* the second page is about to be staged: both records of the first page were
\* handed over in server order, and the attachment request of the second
\* page has finished
C16_Witness ==
    /\ pc = "dl_save" /\ idx = 1
    /\ options.includeAttachments
    /\ Len(AnsweredPages) = 2
    /\ AnsweredPages[1].got = 2
    /\ Len(saved) = 2
    /\ saved[1].email.id = Rec(1).id
    /\ saved[2].email.id = Rec(2).id
    /\ saved[1].email.attachments.present
    /\ Flagged(emails) # {}
    /\ \A k \in Flagged(emails) : emails[k].attachments.present

(***************************************************************************)
(* C17: progress is emitted once per non-empty page, never per record; the *)
(* current values are strictly increasing, each satisfies                  *)
(* 0 < current <= total, and percentage = round(100 * current / total),    *)
(* within 0..100.                                                          *)
(***************************************************************************)
\* pages answered with at least one record whose records were all saved
PagesDone ==
    LET nonEmpty == {i \in 1..Len(AnsweredPages) : AnsweredPages[i].got > 0} IN
    IF pc \in {"dl_attach", "dl_save"}
    THEN Cardinality(nonEmpty) - 1
    ELSE Cardinality(nonEmpty)

\* p is 100 * current / total rounded to the nearest integer, halves upwards
IsRounded(p, current, total) ==
    /\ total * (2 * p - 1) <= 200 * current
    /\ 200 * current < total * (2 * p + 1)

C17_ProgressPerPage ==
    /\ (failure \notin {"attachment_failed", "save_failed"}) =>
          Len(progress) = PagesDone
    /\ \A i \in 1..Len(progress) :
          /\ 0 < progress[i].current
          /\ progress[i].current <= progress[i].total
          /\ progress[i].percentage \in 0..100
          /\ IsRounded(progress[i].percentage, progress[i].current,
                       progress[i].total)
          /\ i > 1 => progress[i - 1].current < progress[i].current

(***************************************************************************)
(* C18: downloadEmailsBatch terminates when the server answers at most     *)
(* $top records per page: every page that does not end the loop strictly   *)
(* increases the downloaded count, which never passes the total, so there  *)
(* are at most min(limit, declared count) + 1 page requests, also with     *)
(* short pages and repeated records.                                       *)
(***************************************************************************)
C18_PageRequestsBounded ==
    /\ Len(PageRequests) <= downloadedCount + 1
    /\ pc = "dl_loop" => Len(AnsweredPages) <= downloadedCount
    /\ Counted => downloadedCount <= totalEmails
    /\ Len(PageRequests) <= Min(options.limit, ReportedCount) + 1

\* a finished download with a short page and a record fetched twice that
\* needed as many page requests as the total
C18_Witness ==
    /\ pc = "cli_downloaded"
    /\ Len(PageRequests) >= 2
    /\ Len(PageRequests) = Min(options.limit, ReportedCount)
    /\ \E i \in 1..Len(PageRequests) : ShortPage(PageRequests[i])
    /\ \E i, j \in 1..Len(saved) : i < j /\ saved[i].id = saved[j].id

(***************************************************************************)
(* C19: when downloadEmails finishes successfully, the number of emails it *)
(* reports as downloaded is the number of distinct staged units the run    *)
(* wrote.                                                                  *)
(***************************************************************************)
\* spinner.succeed(`Successfully downloaded ${totalEmails} emails`)
ReportedDownloaded == totalEmails

StagedUnits == {n \in DOMAIN files : files[n].complete}

C19_ReportedEqualsStaged ==
    (pc = "cli_downloaded" /\ totalEmails > 0) =>
       ReportedDownloaded = Cardinality(StagedUnits)

(***************************************************************************)
(* C20: once authenticate() has returned true, every later                 *)
(* isAuthenticated() returns true and every later getAccessToken() returns *)
(* a token, until clearAuth is called or the token comes within 5 minutes  *)
(* of its expiry; also when the cache write of authenticate failed.        *)
(***************************************************************************)
AuthCalls == authManager.calls

\* call j comes after the successful authenticate i, with no clearAuth in
\* between and the token of i still more than 5 minutes from its expiry
StillAuthenticated(i, j) ==
    /\ i < j
    /\ AuthCalls[i].op = "authenticate" /\ AuthCalls[i].ok
    /\ \A k \in (i + 1)..(j - 1) : AuthCalls[k].op # "clearAuth"
    /\ AuthCalls[i].expiresOn > AuthCalls[j].at + FiveMinutes

C20_AuthenticatedStays ==
    \A i, j \in 1..Len(AuthCalls) :
       StillAuthenticated(i, j) =>
          /\ AuthCalls[j].op = "isAuthenticated" => AuthCalls[j].ok
          /\ AuthCalls[j].op = "getAccessToken" => AuthCalls[j].token # NullString

(***************************************************************************)
(* C21: the cached token always carries an empty refreshToken, so          *)
(* getAccessToken never attempts a silent refresh: it returns the cached   *)
(* access token when that token expires more than 5 minutes from the call, *)
(* and null in every other case.                                           *)
(***************************************************************************)
TokenCalls == {j \in 1..Len(AuthCalls) : AuthCalls[j].op = "getAccessToken"}

\* the token file call j found holds a token more than 5 minutes from expiry
FoundFresh(j) ==
    /\ AuthCalls[j].cache.exists
    /\ AuthCalls[j].cache.expiresOn > AuthCalls[j].at + FiveMinutes

C21_CachedTokenOrNull ==
    /\ tokenCache.refreshToken = <<>>
    /\ \A j \in TokenCalls :
          /\ ~AuthCalls[j].silent
          /\ AuthCalls[j].token =
                IF FoundFresh(j) THEN AuthCalls[j].cache.accessToken
                ELSE NullString

(* C21 as it holds: the same, except that getAccessToken also returns null *)
(* when initializeMsal throws (msalInstance is not set when the call       *)
(* returns), whatever the token file holds.                                *)
C21_CachedTokenOrNullOnceInitialized ==
    /\ tokenCache.refreshToken = <<>>
    /\ \A j \in 1..Len(AuthCalls) : AuthCalls[j].cache.refreshToken = <<>>
    /\ \A j \in TokenCalls :
          /\ ~AuthCalls[j].silent
          /\ AuthCalls[j].token =
                IF AuthCalls[j].msal /\ FoundFresh(j)
                THEN AuthCalls[j].cache.accessToken
                ELSE NullString

\* authenticate acquired a token, getAccessToken returned it, and after the
\* clock moved getAccessToken found it within 5 minutes of its expiry and
\* returned null without a silent refresh
C21_Witness ==
    /\ Len(AuthCalls) = 3
    /\ AuthCalls[1].op = "authenticate" /\ AuthCalls[1].ok
    /\ ~AuthCalls[1].cache.exists
    /\ AuthCalls[2].op = "getAccessToken"
    /\ AuthCalls[2].token = AcquiredToken(0).accessToken
    /\ AuthCalls[3].op = "getAccessToken"
    /\ AuthCalls[3].cache.exists /\ ~FoundFresh(3)
    /\ AuthCalls[3].token = NullString
    /\ ~AuthCalls[3].silent

====
